---- MODULE Spec2Model ----
(***************************************************************************)
(* martian: Earth UTC -> Mars Sol Date (MSD) -> Martian Coordinated Time   *)
(* (MTC) and Darian calendar date.                                         *)
(*                                                                         *)
(* The library is a set of pure functions.  Each public function is        *)
(* modelled as a call: the initial state holds the function that is called *)
(* (op), its arguments and pc at the function's entry; the actions are the *)
(* function's steps (one action per loop iteration for the two loops of    *)
(* msd_to_darian, one action per function body otherwise) and the call     *)
(* ends with pc = "done" and the returned value in result.                 *)
(*                                                                         *)
(* f64 values are fixed-point decimals.  An MSD or a sol-of-month is a     *)
(* record [sols, frac]: whole sols and a fraction counted in 10^-9 sol.    *)
(* An instant is a day and a time of day in milliseconds; a Julian date    *)
(* difference and the length of a sol are counted exactly, in 10^-5 ms.    *)
(* The one quotient, the division by SOL_IN_EARTH_DAYS, is a long division *)
(* floored to 10^-9 sol.  Products and sums are exact.  All intermediate   *)
(* values stay below 2^31.                                                 *)
(***************************************************************************)
EXTENDS Integers, Sequences, FiniteSets, TLC

VARIABLES
    op,              \* the public function that was called
    pc,              \* position of the call
    datetime,        \* utc_to_msd: the input string, a sequence of characters
    advanced,        \* utc_to_msd / msd_now / mtc_now: the mode flag
    clock,           \* msd_now / mtc_now: what get_current_utc_time returns
    tdb,             \* advanced mode: the TT -> TDB periodic term, in ms
    day,             \* validate_date: the day (year and month are its other two)
    msd,             \* msd_to_darian: the argument; *_now: the MSD obtained
    sol_fraction,    \* msd_to_darian locals
    sols_remaining,
    year,
    month,
    year_iters,      \* subtracting iterations of the year loop so far
    month_iters,     \* get_darian_month_length calls of the month loop so far
    result           \* the value returned, [tag |-> "None"] until then

vars == <<op, pc, datetime, advanced, clock, tdb, day, msd, sol_fraction,
          sols_remaining, year, month, year_iters, month_iters, result>>

----------------------------------------------------------------------------
(* Fixed-point grid *)

\* units of a fraction: 10^-9 sol (MSD, sol of month) or 10^-9 of an hour,
\* minute, second, millisecond (Martian clock)
FRAC == 10^9

None == [tag |-> "None"]

Ok(v) == [tag |-> "Ok", value |-> v]

Err(e) == [tag |-> "Err", err |-> e]

Msd(s, f) == [sols |-> s, frac |-> f]

\* a < b on [sols, frac] values
FixLt(a, b) == a.sols < b.sols \/ (a.sols = b.sols /\ a.frac < b.frac)

FixLe(a, b) == a = b \/ FixLt(a, b)

\* |a - b| < eps on [sols, frac] values (eps in 10^-9 units, below one sol)
FixWithin(a, b, eps) ==
    LET lo == IF FixLe(a, b) THEN a ELSE b
        hi == IF FixLe(a, b) THEN b ELSE a
    IN  /\ hi.sols - lo.sols <= 1
        /\ (hi.sols - lo.sols) * FRAC + hi.frac - lo.frac < eps

----------------------------------------------------------------------------
(* date/darian/constants.rs *)

\* a table without short months
DARIAN_MONTH_LENGTHS_ALL_28 == [m \in 1..24 |-> 28]

DARIAN_MONTH_LENGTHS ==
    << 28, 28, 28, 28, 28, 27,
       28, 28, 28, 28, 28, 27,
       28, 28, 28, 28, 28, 27,
       28, 28, 28, 28, 28, 27 >>

\* 94130.9446045 as [sols, frac]
SOL_DIFFERENCE_BETWEEN_DARIAN_AND_MSD == Msd(94130, 944604500)

----------------------------------------------------------------------------
(* date/darian/functions.rs: the pure helpers *)

is_darian_leap_year_no_century_rule(y) == y % 2 /= 0 \/ y % 10 = 0

is_darian_leap_year(y) ==
    IF y % 100 = 0
    THEN (IF y % 500 = 0 THEN TRUE ELSE FALSE)
    ELSE y % 2 /= 0 \/ y % 10 = 0

get_darian_month_length_no_leap_sol(y, m) ==
    IF m < 1 \/ m > 24
    THEN Err("MonthValueOutOfRange")
    ELSE Ok(DARIAN_MONTH_LENGTHS[m])

\* the range check one month short: month >= 24 is refused
get_darian_month_length_month_24_refused(y, m) ==
    IF m < 1 \/ m >= 24
    THEN Err("MonthValueOutOfRange")
    ELSE Ok(DARIAN_MONTH_LENGTHS[m])

\* the leap sol given to each of the four short months of a leap year
get_darian_month_length_leap_sol_in_short_months(y, m) ==
    IF m < 1 \/ m > 24
    THEN Err("MonthValueOutOfRange")
    ELSE LET base_length == DARIAN_MONTH_LENGTHS[m]
         IN  Ok(IF is_darian_leap_year(y) /\ base_length = 27
                THEN base_length + 1
                ELSE base_length)

\* DARIAN_MONTH_LENGTHS[(month - 1) as usize] of the 0-based array is entry
\* month of the 1-based tuple.
get_darian_month_length(y, m) ==
    IF m < 1 \/ m > 24
    THEN Err("MonthValueOutOfRange")
    ELSE LET base_length == DARIAN_MONTH_LENGTHS[m]
         IN  Ok(IF is_darian_leap_year(y) /\ m = 24
                THEN base_length + 1
                ELSE base_length)

\* if is_darian_leap_year(year) { 669 } else { 668 }
year_length(y) == IF is_darian_leap_year(y) THEN 669 ELSE 668

adjusted_msd_without_epoch_sol(m) ==
    LET f == m.frac + SOL_DIFFERENCE_BETWEEN_DARIAN_AND_MSD.frac
    IN  Msd(m.sols + SOL_DIFFERENCE_BETWEEN_DARIAN_AND_MSD.sols + (f \div FRAC),
            f % FRAC)

\* msd + SOL_DIFFERENCE_BETWEEN_DARIAN_AND_MSD - 1.0
adjusted_msd(m) ==
    LET f == m.frac + SOL_DIFFERENCE_BETWEEN_DARIAN_AND_MSD.frac
    IN  Msd(m.sols + SOL_DIFFERENCE_BETWEEN_DARIAN_AND_MSD.sols + (f \div FRAC) - 1,
            f % FRAC)

\* msd_to_darian as a function of its argument: the year loop of lines
\* 111-119 from year y with `remaining` sols left
RECURSIVE year_loop(_, _)
year_loop(y, remaining) ==
    IF remaining >= year_length(y)
    THEN year_loop(y + 1, remaining - year_length(y))
    ELSE [year |-> y, sols_remaining |-> remaining]

\* the month loop of lines 124-133 from month mo of year y
RECURSIVE month_loop(_, _, _, _)
month_loop(y, mo, remaining, fraction) ==
    LET month_length == get_darian_month_length(y, mo)
    IN  IF month_length.tag = "Err" THEN month_length
        ELSE IF remaining < month_length.value
        THEN Ok([year |-> y, month |-> mo, sol |-> Msd(remaining, fraction)])
        ELSE month_loop(y, mo + 1, remaining - month_length.value, fraction)

\* lines 121-135, after the year loop
date_in_year(found, fraction) == month_loop(found.year, 1, found.sols_remaining, fraction)

\* lines 104-135, from the adjusted MSD on
date_of_adjusted_msd(adj) == date_in_year(year_loop(0, adj.sols), adj.frac)

msd_to_darian(m) == date_of_adjusted_msd(adjusted_msd(m))

----------------------------------------------------------------------------
(* Bounds and inputs of the Darian calendar calls *)

\* msd_to_darian is called with every whole-sol count 0..MaxMsdSols
MaxMsdSols == 1500

\* fractions of the MSD argument: none, the largest that does not carry into
\* the next sol once the Darian offset is added, and the smallest that does
MsdFracs == {0, FRAC - SOL_DIFFERENCE_BETWEEN_DARIAN_AND_MSD.frac - 1,
             FRAC - SOL_DIFFERENCE_BETWEEN_DARIAN_AND_MSD.frac}

\* #[cfg(test)] get_msd_now: Ok(53626.0011), the sol of 2024-11-07T17:58:40.000
get_msd_now == Msd(53626, 1100000)

MsdInputs == {Msd(s, f) : s \in 0..MaxMsdSols, f \in MsdFracs} \cup {get_msd_now}

\* what msd_now hands to darian_now: the test build's constant, or the MSD of
\* the wall clock (Sol 0 and the Curiosity landing stand for it)
MsdNowValues == {get_msd_now, Msd(0, 0), Msd(49269, 245470018)}

\* is_darian_leap_year and get_darian_month_length are called with every
\* year 0..MaxYearArg and every month 0..MaxMonthArg
MaxYearArg == 2000

MaxMonthArg == 26

----------------------------------------------------------------------------
(* Initial states: one per call *)

\* the variables a call does not use
IdleTime == /\ datetime = <<>>
            /\ advanced = FALSE
            /\ clock = None
            /\ tdb = 0
            /\ day = 0

IdleDarian == /\ sol_fraction = 0
              /\ sols_remaining = 0
              /\ year = 0
              /\ month = 0
              /\ year_iters = 0
              /\ month_iters = 0

InitMsdToDarian ==
    /\ op = "msd_to_darian"
    /\ pc = "msd_to_darian"
    /\ msd \in MsdInputs
    /\ IdleTime /\ IdleDarian
    /\ result = None

InitDarianNow ==
    /\ op = "darian_now"
    /\ pc = "darian_now"
    /\ msd = None
    /\ IdleTime /\ IdleDarian
    /\ result = None

InitIsDarianLeapYear ==
    /\ op = "is_darian_leap_year"
    /\ pc = "is_darian_leap_year"
    /\ year \in 0..MaxYearArg
    /\ msd = None /\ IdleTime
    /\ sol_fraction = 0 /\ sols_remaining = 0 /\ month = 0
    /\ year_iters = 0 /\ month_iters = 0
    /\ result = None

InitGetDarianMonthLength ==
    /\ op = "get_darian_month_length"
    /\ pc = "get_darian_month_length"
    /\ year \in 0..MaxYearArg
    /\ month \in 0..MaxMonthArg
    /\ msd = None /\ IdleTime
    /\ sol_fraction = 0 /\ sols_remaining = 0
    /\ year_iters = 0 /\ month_iters = 0
    /\ result = None

----------------------------------------------------------------------------
(* date/darian/functions.rs: the calls *)

TimeUnchanged == UNCHANGED <<datetime, advanced, clock, tdb, day>>

\* darian_now: let msd = get_msd_now()?; Ok(msd_to_darian(msd)?)
DarianNow ==
    /\ pc = "darian_now"
    /\ \E m \in MsdNowValues : msd' = m
    /\ pc' = "msd_to_darian"
    /\ UNCHANGED <<op, sol_fraction, sols_remaining, year, month,
                   year_iters, month_iters, result>>
    /\ TimeUnchanged

\* msd_to_darian, lines 101-108: rebase the MSD, split it, start at year 0
MsdToDarianEnter ==
    /\ pc = "msd_to_darian"
    /\ LET adj == adjusted_msd(msd)
       IN  /\ sols_remaining' = adj.sols      \* adjusted_msd.floor() as u32
           /\ sol_fraction' = adj.frac        \* adjusted_msd - adjusted_msd.floor()
    /\ year' = 0
    /\ pc' = "year_loop"
    /\ UNCHANGED <<op, msd, month, year_iters, month_iters, result>>
    /\ TimeUnchanged

\* msd_to_darian, lines 111-122: one iteration of the year loop; on break,
\* month = 1
YearLoop ==
    /\ pc = "year_loop"
    /\ IF sols_remaining >= year_length(year)
       THEN /\ sols_remaining' = sols_remaining - year_length(year)
            /\ year' = year + 1
            /\ year_iters' = year_iters + 1
            /\ UNCHANGED <<pc, month>>
       ELSE /\ month' = 1
            /\ pc' = "month_loop"
            /\ UNCHANGED <<sols_remaining, year, year_iters>>
    /\ UNCHANGED <<op, msd, sol_fraction, month_iters, result>>
    /\ TimeUnchanged

\* msd_to_darian, lines 124-135: one iteration of the month loop; the ? returns
\* the month-range error, the break returns DarianDate::new(year, month, sol)
MonthLoop ==
    /\ pc = "month_loop"
    /\ month_iters' = month_iters + 1
    /\ LET month_length == get_darian_month_length(year, month)
       IN  IF month_length.tag = "Err"
           THEN /\ result' = month_length
                /\ pc' = "done"
                /\ UNCHANGED <<sols_remaining, month>>
           ELSE IF sols_remaining < month_length.value
           THEN /\ result' = Ok([year |-> year, month |-> month,
                                 sol |-> Msd(sols_remaining, sol_fraction)])
                /\ pc' = "done"
                /\ UNCHANGED <<sols_remaining, month>>
           ELSE /\ sols_remaining' = sols_remaining - month_length.value
                /\ month' = month + 1
                /\ UNCHANGED <<pc, result>>
    /\ UNCHANGED <<op, msd, sol_fraction, year, year_iters>>
    /\ TimeUnchanged

\* a call of the private helper is_darian_leap_year(year)
IsDarianLeapYear ==
    /\ pc = "is_darian_leap_year"
    /\ result' = Ok(is_darian_leap_year(year))
    /\ pc' = "done"
    /\ UNCHANGED <<op, msd, sol_fraction, sols_remaining, year, month,
                   year_iters, month_iters>>
    /\ TimeUnchanged

\* a call of the private helper get_darian_month_length(year, month)
GetDarianMonthLength ==
    /\ pc = "get_darian_month_length"
    /\ result' = get_darian_month_length(year, month)
    /\ pc' = "done"
    /\ UNCHANGED <<op, msd, sol_fraction, sols_remaining, year, month,
                   year_iters, month_iters>>
    /\ TimeUnchanged

InitDarian == InitMsdToDarian \/ InitDarianNow

NextDarian == DarianNow \/ MsdToDarianEnter \/ YearLoop \/ MonthLoop

SpecDarian == InitDarian /\ [][NextDarian]_vars

\* a call that has not returned goes on: the function is sequential code and
\* each action is its next step
FairSpecDarian == SpecDarian /\ WF_vars(NextDarian)

InitHelpers == InitIsDarianLeapYear \/ InitGetDarianMonthLength

NextHelpers == IsDarianLeapYear \/ GetDarianMonthLength

SpecHelpers == InitHelpers /\ [][NextHelpers]_vars

----------------------------------------------------------------------------
(* Properties of the Darian calendar *)

DarianDone == op \in {"msd_to_darian", "darian_now"} /\ pc = "done"

\* C1: every finished msd_to_darian call (MSD >= 0) returned Ok with a
\* DarianDate whose month is in 1..24 and whose sol is at least 0 and below
\* the length of that month of that year, leap sol of month 24 included.
C1_DarianDateInRange ==
    DarianDone =>
        /\ result.tag = "Ok"
        /\ result.value.month \in 1..24
        /\ LET len == get_darian_month_length(result.value.year, result.value.month)
           IN  /\ len.tag = "Ok"
               /\ FixLe(Msd(0, 0), result.value.sol)
               /\ FixLt(result.value.sol, Msd(len.value, 0))

\* a call that ended on the leap sol: sol 27.x of month 24 of a leap year
C1_Witness ==
    /\ DarianDone
    /\ result.tag = "Ok"
    /\ result.value.month = 24
    /\ result.value.sol.sols = 27
    /\ result.value.sol.frac > 0

\* C2: is_darian_leap_year(year) is: for a multiple of 100, whether it is a
\* multiple of 500; for any other year, whether it is odd or a multiple of
\* 10.  2000, 3 and 10 are leap; 1900 and 4 are not.
C2_LeapRule ==
    (op = "is_darian_leap_year" /\ pc = "done") =>
        /\ result.tag = "Ok"
        /\ (year % 100 = 0) => (result.value <=> (year % 500 = 0))
        /\ (year % 100 /= 0) => (result.value <=> (year % 2 = 1 \/ year % 10 = 0))
        /\ year \in {2000, 3, 10} => result.value
        /\ year \in {1900, 4} => ~result.value

\* the century rule applied: year 1900 was asked for
C2_Witness ==
    /\ op = "is_darian_leap_year" /\ pc = "done"
    /\ year = 1900
    /\ result = Ok(FALSE)

\* C8: msd_to_darian(53626.0011), directly or through darian_now, returns
\* year 220, month 24 and a sol within 0.1 of 25.0.
C8_KnownDarianDate ==
    (DarianDone /\ msd = Msd(53626, 1100000)) =>
        /\ result.tag = "Ok"
        /\ result.value.year = 220
        /\ result.value.month = 24
        /\ FixWithin(result.value.sol, Msd(25, 0), FRAC \div 10)

\* darian_now finished on the test build's MSD
C8_Witness ==
    /\ op = "darian_now" /\ pc = "done"
    /\ msd = Msd(53626, 1100000)
    /\ result.tag = "Ok"
    /\ year_iters = 220

----------------------------------------------------------------------------
(* Strings: a string is a sequence of one-character strings *)

DigitChars == <<"0", "1", "2", "3", "4", "5", "6", "7", "8", "9">>

IsDigit(c) == \E i \in 1..10 : DigitChars[i] = c

DigitValue(c) == (CHOOSE i \in 1..10 : DigitChars[i] = c) - 1

\* n in decimal, zero-padded to w characters ({:0w})
RECURSIVE Pad(_, _)
Pad(n, w) == IF w = 0 THEN <<>>
             ELSE Append(Pad(n \div 10, w - 1), DigitChars[(n % 10) + 1])

\* YYYY-MM-DDTHH:MM:SS followed by `fraction`, from a year string and numbers
IsoString(y, mo, d, h, mi, sec, fraction) ==
    y \o <<"-">> \o Pad(mo, 2) \o <<"-">> \o Pad(d, 2) \o <<"T">> \o
    Pad(h, 2) \o <<":">> \o Pad(mi, 2) \o <<":">> \o Pad(sec, 2) \o fraction

\* ".fff": n as w digits after a dot
Fraction(n, w) == <<".">> \o Pad(n, w)

----------------------------------------------------------------------------
(* time/constants.rs *)

\* the 4 of (\d{4,}) in src/constants.rs is 1: (\d{1,}); that pattern is not
\* the one time/functions.rs imports
ROOT_ISO8601_YEAR_DIGITS == 1

\* ISO8601_REGEX, ^(\d{4,})-...: the least number of year digits
ISO8601_YEAR_DIGITS == 4

MIN_YEAR == 1873

MIN_MONTH == 12

MIN_DAY == 29

\* TAI_TO_TT_OFFSET = 32.184 s, in ms
TAI_TO_TT_OFFSET == 32184

\* one limb of a two-limb count of 10^-5 ms: [hi |-> ms, lo |-> 10^-5 ms]
LIMB == 10^5

\* an Earth day, 86400000 ms: what a sol is not
EARTH_DAY == [hi |-> 86400000, lo |-> 0]

\* SOL_IN_EARTH_DAYS = 1.0274912517 day = 88775244.14688 ms
SOL_IN_EARTH_DAYS == [hi |-> 88775244, lo |-> 14688]

\* JD_ON_SOL_ZERO = 2405522.0028779: Julian day 2405522 and 0.0028779 day =
\* 248650.56 ms
JD_ON_SOL_ZERO == [days |-> 2405522, hi |-> 248650, lo |-> 56000]

MS_PER_DAY == 24 * 60 * 60 * 1000

I32_MAX == 2147483647

U8_MAX == 255

----------------------------------------------------------------------------
(* time/functions.rs: Regex::new(ISO8601_REGEX).captures(datetime)          *)
(* ^(\d{4,})-(\d{1,2})-(\d{1,2})T(\d{1,2}):(\d{1,2}):(\d{1,2})             *)
(*  (?:\.(\d{1,}))?.*?$                                                     *)

\* the number of digits at s[i], s[i+1], ..., at most max
RECURSIVE DigitRun(_, _, _)
DigitRun(s, i, max) ==
    IF max = 0 \/ i > Len(s) \/ ~IsDigit(s[i]) THEN 0
    ELSE 1 + DigitRun(s, i + 1, max - 1)

\* \d{min,max} at position i followed by the literal sep (none if sep = "").
\* A digit run is followed by a non-digit or by the end, so the greedy run is
\* the only one that can match.
Field(s, i, min, max, sep) ==
    LET n == DigitRun(s, i, max)
        j == i + n
    IN  IF n < min THEN [ok |-> FALSE]
        ELSE IF sep = "" THEN [ok |-> TRUE, text |-> SubSeq(s, i, j - 1), next |-> j]
        ELSE IF j <= Len(s) /\ s[j] = sep
             THEN [ok |-> TRUE, text |-> SubSeq(s, i, j - 1), next |-> j + 1]
             ELSE [ok |-> FALSE]

\* the six fields of the pattern, each with the literal that follows it
\* (max 0: any number of digits)
ISO8601_FIELDS ==
    << [min |-> ISO8601_YEAR_DIGITS, max |-> 0, sep |-> "-"],
       [min |-> 1, max |-> 2, sep |-> "-"],
       [min |-> 1, max |-> 2, sep |-> "T"],
       [min |-> 1, max |-> 2, sep |-> ":"],
       [min |-> 1, max |-> 2, sep |-> ":"],
       [min |-> 1, max |-> 2, sep |-> ""] >>

\* (?:\.(\d{1,}))?.*?$ at position p: group 7 is <<>> when the optional
\* group did not take part.  `.` does not match a line feed and `$` is the end
\* of the text.
MatchTail(s, p, groups) ==
    LET dot  == p <= Len(s) /\ s[p] = "." /\ DigitRun(s, p + 1, 1) = 1
        n    == IF dot THEN DigitRun(s, p + 1, Len(s)) ELSE 0
        rest == IF dot THEN p + 1 + n ELSE p
    IN  IF \E k \in rest..Len(s) : s[k] = "\n"
        THEN [ok |-> FALSE]
        ELSE [ok |-> TRUE,
              group |-> Append(groups, IF dot THEN SubSeq(s, p + 1, p + n) ELSE <<>>)]

\* fields k.. of the pattern at position i, after the captures `groups`
RECURSIVE MatchFrom(_, _, _, _)
RECURSIVE MatchField(_, _, _, _)
MatchFrom(s, i, k, groups) ==
    IF k > Len(ISO8601_FIELDS) THEN MatchTail(s, i, groups)
    ELSE MatchField(s, k, groups,
                    Field(s, i, ISO8601_FIELDS[k].min,
                          IF ISO8601_FIELDS[k].max = 0 THEN Len(s) ELSE ISO8601_FIELDS[k].max,
                          ISO8601_FIELDS[k].sep))

MatchField(s, k, groups, f) ==
    IF ~f.ok THEN [ok |-> FALSE]
    ELSE MatchFrom(s, f.next, k + 1, Append(groups, f.text))

\* the captures 1..7 of the pattern ([ok |-> TRUE, group |-> ...]), or no
\* match
captures(s) == MatchFrom(s, 1, 1, <<>>)

\* str::parse of a digit string into an integer type whose largest value is
\* max: the value, or -1 for the overflow error
RECURSIVE ParseFrom(_, _, _, _)
ParseFrom(text, i, acc, max) ==
    IF i > Len(text) THEN acc
    ELSE LET dv == DigitValue(text[i])
         IN  IF acc > (max - dv) \div 10 THEN -1
             ELSE ParseFrom(text, i + 1, acc * 10 + dv, max)

parse(text, max) == ParseFrom(text, 1, 0, max)

\* validate_regex_value::<T>(input, min, max), T::MAX = tmax
validate_regex_value(text, min, max, tmax) ==
    LET value == parse(text, tmax)
    IN  IF value = -1 THEN Err("InvalidArgumentError")
        ELSE IF value >= min /\ value <= max THEN Ok(value)
        ELSE Err("InvalidArgumentError")

validate_date_year_only(y, mo, d) ==
    IF y < MIN_YEAR THEN Err("DateBelowSolZeroError") ELSE Ok(<<>>)

validate_date(y, mo, d) ==
    IF y < MIN_YEAR THEN Err("DateBelowSolZeroError")
    ELSE IF y = MIN_YEAR
         THEN IF mo < MIN_MONTH THEN Err("DateBelowSolZeroError")
              ELSE IF mo = MIN_MONTH /\ d < MIN_DAY THEN Err("DateBelowSolZeroError")
              ELSE Ok(<<>>)
    ELSE Ok(<<>>)

----------------------------------------------------------------------------
(* hifitime, as time/functions.rs uses it.  An Epoch is the Julian day      *)
(* number jdn of its UTC calendar date (the date's 0h is JD jdn + 0.5), the *)
(* TAI time elapsed since that 0h in ms, and the date's year and month.     *)
(* Calendar dates are valid ones and the seventh argument is below 10^9.    *)

\* the IERS leap seconds: <<year, month, TAI - UTC from the first of that month>>
LEAP_SECONDS ==
    << <<1972, 1, 10>>, <<1972, 7, 11>>, <<1973, 1, 12>>, <<1974, 1, 13>>,
       <<1975, 1, 14>>, <<1976, 1, 15>>, <<1977, 1, 16>>, <<1978, 1, 17>>,
       <<1979, 1, 18>>, <<1980, 1, 19>>, <<1981, 7, 20>>, <<1982, 7, 21>>,
       <<1983, 7, 22>>, <<1985, 7, 23>>, <<1988, 1, 24>>, <<1990, 1, 25>>,
       <<1991, 1, 26>>, <<1992, 7, 27>>, <<1993, 7, 28>>, <<1994, 7, 29>>,
       <<1996, 1, 30>>, <<1997, 7, 31>>, <<1999, 1, 32>>, <<2006, 1, 33>>,
       <<2009, 1, 34>>, <<2012, 7, 35>>, <<2015, 7, 36>>, <<2017, 1, 37>> >>

\* Epoch::leap_seconds(true): the count in force, or -1 for None (before the
\* first IERS leap second)
leap_seconds(y, mo) ==
    LET past == {i \in 1..Len(LEAP_SECONDS) :
                    \/ LEAP_SECONDS[i][1] < y
                    \/ (LEAP_SECONDS[i][1] = y /\ LEAP_SECONDS[i][2] <= mo)}
    IN  IF past = {} THEN -1
        ELSE LEAP_SECONDS[CHOOSE i \in past : \A j \in past : j <= i][3]

\* the Julian day number of a Gregorian date: 0h of the date is JD jdn + 0.5
JulianDayNumber(y, mo, d) ==
    LET yy  == IF mo <= 2 THEN y - 1 ELSE y
        era == yy \div 400
        yoe == yy - era * 400
        mp  == IF mo > 2 THEN mo - 3 ELSE mo + 9
        doy == (153 * mp + 2) \div 5 + d - 1
        doe == yoe * 365 + yoe \div 4 - yoe \div 100 + doy
    IN  era * 146097 + doe - 719468 + 2440587

\* Epoch::from_gregorian_utc(year, month, day, hour, minute, second, nanos):
\* TAI = UTC + the leap seconds in force (none before 1972); the seventh
\* argument counts nanoseconds
from_gregorian_utc(y, mo, d, h, mi, sec, nanos) ==
    LET leap == leap_seconds(y, mo)
    IN  [jdn |-> JulianDayNumber(y, mo, d),
         tai_ms |-> (h * 3600 + mi * 60 + sec) * 1000 + nanos \div 10^6
                    + (IF leap = -1 THEN 0 ELSE leap * 1000),
         year |-> y, month |-> mo]

\* Epoch + seconds (here in ms)
EpochAdd(e, ms) == [e EXCEPT !.tai_ms = @ + ms]

\* Epoch::to_jde_tt_days: TT = TAI + 32.184 s, as a Julian date
\* [days, ms]: JD = days + ms / 86400000
to_jde_tt_days(e) ==
    [days |-> e.jdn, ms |-> e.tai_ms + 32184 + MS_PER_DAY \div 2]

----------------------------------------------------------------------------
(* time/functions.rs: (jd - JD_ON_SOL_ZERO) / SOL_IN_EARTH_DAYS             *)

\* jd - JD_ON_SOL_ZERO in three limbs: h counts 10^5 ms, m ms, l 10^-5 ms,
\* with 0 <= m, l < 10^5; the difference is negative iff h < 0
SinceSolZero(jd) ==
    LET borrow == IF JD_ON_SOL_ZERO.lo > 0 THEN 1 ELSE 0
        l  == borrow * LIMB - JD_ON_SOL_ZERO.lo
        ms == jd.ms - JD_ON_SOL_ZERO.hi - borrow
    IN  [h |-> (jd.days - JD_ON_SOL_ZERO.days) * (MS_PER_DAY \div LIMB) + ms \div LIMB,
         m |-> ms % LIMB,
         l |-> l]

\* the w decimal digits of n, most significant first
RECURSIVE Digits(_, _)
Digits(n, w) == IF w = 0 THEN <<>> ELSE Append(Digits(n \div 10, w - 1), n % 10)

PairLe(a, b) == a.hi < b.hi \/ (a.hi = b.hi /\ a.lo <= b.lo)

PairSub(a, b) ==
    IF a.lo >= b.lo THEN [hi |-> a.hi - b.hi, lo |-> a.lo - b.lo]
    ELSE [hi |-> a.hi - b.hi - 1, lo |-> a.lo + LIMB - b.lo]

\* k * sol for a digit k
PairMul(sol, k) ==
    [hi |-> k * sol.hi + (k * sol.lo) \div LIMB, lo |-> (k * sol.lo) % LIMB]

\* long division by sol, digit by digit: the quotient of (r, then the digits
\* ds) and the remainder
RECURSIVE LongDivide(_, _, _, _, _)
LongDivide(ds, i, r, q, sol) ==
    IF i > Len(ds) THEN [quot |-> q, rem |-> r]
    ELSE LET lo10 == r.lo * 10 + ds[i]
             r10  == [hi |-> r.hi * 10 + lo10 \div LIMB, lo |-> lo10 % LIMB]
             k0   == r10.hi \div sol.hi
             k    == IF PairLe(PairMul(sol, k0), r10) THEN k0 ELSE k0 - 1
         IN  LongDivide(ds, i + 1, PairSub(r10, PairMul(sol, k)), q * 10 + k, sol)

\* (jd - jd0) / sol for jd >= jd0: whole sols and 9 decimals
DivideBySol(delta, sol) ==
    LET whole == LongDivide(Digits(delta.h, 9) \o Digits(delta.m, 5) \o Digits(delta.l, 5),
                            1, [hi |-> 0, lo |-> 0], 0, sol)
        part  == LongDivide(Digits(0, 9), 1, whole.rem, 0, sol)
    IN  Msd(whole.quot, part.quot)

\* let msd = (jd - JD_ON_SOL_ZERO) / SOL_IN_EARTH_DAYS;
\* if msd.is_finite() && msd.is_sign_positive() { Ok(msd) }
\* else { Err(TimeError::TimeCalculationError) }
msd_of_julian_date(jd) ==
    LET delta == SinceSolZero(jd)
    IN  IF delta.h >= 0 THEN Ok(DivideBySol(delta, SOL_IN_EARTH_DAYS))
        ELSE Err("TimeCalculationError")

\* 0.001658 * sin(M) + 0.000014 * sin(2 * M) lies within +-(0.001658 + 0.000014)
\* day = +-144460.8 ms.  The sines are not computed: the term is one of the
\* two bounds (rounded outwards) or zero.
TdbBound == ((1658 + 14) * 864 + 9) \div 10

TdbTerms == {-TdbBound, 0, TdbBound}

----------------------------------------------------------------------------
(* time/functions.rs: utc_to_msd *)

\* lines 157-201: from the validated fields to the MSD
msd_of_fields(y, mo, d, h, mi, sec, millisecond, adv, tdb_term) ==
    LET utc == from_gregorian_utc(y, mo, d, h, mi, sec, millisecond)
    IN  IF ~adv
        THEN msd_of_julian_date(to_jde_tt_days(utc))
        ELSE LET leap == leap_seconds(utc.year, utc.month)
             IN  IF leap = -1 THEN Err("LeapSecondError")
                 ELSE LET now_tai == EpochAdd(utc, leap * 1000)
                          now_tt  == EpochAdd(now_tai, TAI_TO_TT_OFFSET)
                          jd_tt   == to_jde_tt_days(now_tt)
                          jd_tdb  == [jd_tt EXCEPT !.ms = @ + tdb_term]
                      IN  msd_of_julian_date(jd_tdb)

\* lines 143-155: validate the captures in the order of the code; each ?
\* returns the error at once
msd_of_captures(g, adv, tdb_term) ==
    LET y  == validate_regex_value(g[1], 0, I32_MAX, I32_MAX)
    IN  IF y.tag = "Err" THEN y ELSE
    LET mo == validate_regex_value(g[2], 1, 12, U8_MAX)
    IN  IF mo.tag = "Err" THEN mo ELSE
    LET d  == validate_regex_value(g[3], 1, 31, U8_MAX)
    IN  IF d.tag = "Err" THEN d ELSE
    LET date == validate_date(y.value, mo.value, d.value)
    IN  IF date.tag = "Err" THEN date ELSE
    LET h  == validate_regex_value(g[4], 0, 23, U8_MAX)
    IN  IF h.tag = "Err" THEN h ELSE
    LET mi == validate_regex_value(g[5], 0, 59, U8_MAX)
    IN  IF mi.tag = "Err" THEN mi ELSE
    LET sec == validate_regex_value(g[6], 0, 59, U8_MAX)
    IN  IF sec.tag = "Err" THEN sec ELSE
    \* map_or(0, |m| m.as_str().parse::<u32>().unwrap_or(0)); the fractions
    \* of the inputs have at most 9 digits, which fit
    LET millisecond == IF g[7] = <<>> THEN 0 ELSE parse(g[7], I32_MAX)
    IN  msd_of_fields(y.value, mo.value, d.value, h.value, mi.value, sec.value,
                      millisecond, adv, tdb_term)

\* lines 140-141: regex.captures(datetime).ok_or(ISO8601FormatError)?
msd_of_match(regex_result, adv, tdb_term) ==
    IF ~regex_result.ok THEN Err("ISO8601FormatError")
    ELSE msd_of_captures(regex_result.group, adv, tdb_term)

utc_to_msd(dt, adv, tdb_term) == msd_of_match(captures(dt), adv, tdb_term)

\* Epoch::to_isoformat: the UTC date and time with six digits of subseconds
to_isoformat(c) ==
    IsoString(Pad(c.year, 4), c.month, c.day, c.hour, c.minute, c.second,
              Fraction(c.micros, 6))

----------------------------------------------------------------------------
(* time/functions.rs: mtc_now, lines 348-364, from the MSD on *)

\* x * k for a fixed-point x = [sols, frac] and an integer 0 <= k <= 1000, exact
FixMul(x, k) ==
    LET low  == (x.frac % LIMB) * k
        high == (x.frac \div LIMB) * k + low \div LIMB
    IN  [sols |-> x.sols * k + high \div (FRAC \div LIMB),
         frac |-> (high % (FRAC \div LIMB)) * LIMB + (low % LIMB)]

\* x % 1.0
FixFract(x) == [sols |-> 0, frac |-> x.frac]

\* f64::round: half away from zero (x >= 0)
round(x) == IF x.frac >= FRAC \div 2 THEN x.sols + 1 ELSE x.sols

\* the clock with the seconds taken from the fraction of the hour, as the
\* minutes are: (mtc_hours % 1.0) * 60.0
mtc_of_msd_seconds_as_minutes(m) ==
    LET p         == FixMul(m, 24)
        mtc_hours == [sols |-> p.sols % 24, frac |-> p.frac]
        minutes   == FixMul(FixFract(mtc_hours), 60)
        seconds   == FixMul(FixFract(mtc_hours), 60)
        milliseconds == FixMul(FixFract(seconds), 1000)
    IN  [hours |-> mtc_hours.sols, minutes |-> minutes.sols, seconds |-> seconds.sols,
         milliseconds |-> round(milliseconds)]

\* Time::new(hours.floor(), minutes.floor(), seconds.floor(),
\* milliseconds.round()), each as u32
mtc_of_msd(m) ==
    LET p         == FixMul(m, 24)
        mtc_hours == [sols |-> p.sols % 24, frac |-> p.frac]      \* (24.0 * msd) % 24.0
        hours     == mtc_hours
        minutes   == FixMul(FixFract(mtc_hours), 60)              \* (mtc_hours % 1.0) * 60.0
        seconds   == FixMul(FixFract(FixMul(mtc_hours, 60)), 60)  \* ((mtc_hours * 60.0) % 1.0) * 60.0
        milliseconds == FixMul(FixFract(seconds), 1000)           \* (seconds % 1.0) * 1000.0
    IN  [hours |-> hours.sols, minutes |-> minutes.sols, seconds |-> seconds.sols,
         milliseconds |-> round(milliseconds)]

----------------------------------------------------------------------------
(* Inputs of the time calls *)

\* the year strings: two digits, years before, at and after Sol 0, a year
\* before the first leap second, and eleven digits (too many for an i32)
YearStrings ==
    {Pad(21, 2), Pad(1800, 4), Pad(1873, 4), Pad(1874, 4), Pad(1971, 4),
     Pad(2012, 4), Pad(2021, 4), Pad(99999, 5) \o Pad(999999, 6)}

\* in and out of range; every in-range (month, day) is a day of the calendar
Months == {8, 11, 12, 13}

Days == {6, 28, 29, 32}

Hours == {0, 5, 23, 24}

Minutes == {0, 17, 59, 60}

Seconds == {0, 57, 59, 60}

Fractions == {<<>>, Fraction(0, 3), Fraction(999, 3)}

\* "2012-08-06T05:17:57.000"
CuriosityLanding == IsoString(Pad(2012, 4), 8, 6, 5, 17, 57, Fraction(0, 3))

\* strings of other shapes: a suffix, a line feed, a prefix, no seconds, a
\* blank for the T, nothing, one-digit fields, a three-digit month, a dot
\* without digits
OtherStrings ==
    {CuriosityLanding \o <<"Z">>,
     CuriosityLanding \o <<"\n">>,
     <<" ">> \o CuriosityLanding,
     SubSeq(CuriosityLanding, 1, 16),
     [CuriosityLanding EXCEPT ![11] = " "],
     <<>>,
     <<"2", "0", "1", "2", "-", "8", "-", "6", "T", "5", ":", "7", ":", "9">>,
     <<"2", "0", "1", "2", "-", "0", "0", "8", "-", "0", "6", "T", "0", "5", ":",
       "1", "7", ":", "5", "7">>,
     SubSeq(CuriosityLanding, 1, 20) \o <<"x">>}

DateTimeInputs ==
    {IsoString(y, mo, d, h, mi, sec, f) :
        y \in YearStrings, mo \in Months, d \in Days, h \in Hours,
        mi \in Minutes, sec \in Seconds, f \in Fractions}
    \cup OtherStrings

\* the wall clock reads second 0..MaxClockSecond of four minutes of
\* 2012-08-06, or 2024-11-07T17:58:40
MaxClockSecond == 58

Instant(y, mo, d, h, mi, sec) ==
    [year |-> y, month |-> mo, day |-> d, hour |-> h, minute |-> mi,
     second |-> sec, micros |-> 0]

\* #[cfg(test)] get_current_utc_time: the Curiosity landing
get_current_utc_time == Instant(2012, 8, 6, 5, 17, 57)

ClockInstants ==
    {Instant(2012, 8, 6, h, mi, sec) :
        h \in {5, 9}, mi \in {17, 24}, sec \in 0..MaxClockSecond}
    \cup {Instant(2024, 11, 7, 17, 58, 40), get_current_utc_time}

\* the MSDs a Martian clock is derived from: sol 0 and sol 49269, at
\* 0..MaxMtcStep steps of a little less than a Martian second, at a quarter
\* of a sol and at the last instant of the sol
MaxMtcStep == 2000

\* validate_date is called with the years MIN_YEAR - MaxYearSpan ..
\* MIN_YEAR + MaxYearSpan
MaxYearSpan == 3

MtcStep == FRAC \div 86400 - 4

MtcMsdInputs ==
    {Msd(sl, f) : sl \in {0, 49269},
                  f \in {i * MtcStep : i \in 0..MaxMtcStep} \cup {FRAC \div 4, FRAC - 1}}

----------------------------------------------------------------------------
(* time/functions.rs: the calls *)

InitUtcToMsd ==
    /\ op = "utc_to_msd"
    /\ pc = "utc_to_msd"
    /\ datetime \in DateTimeInputs
    /\ advanced \in BOOLEAN
    /\ clock = None /\ tdb = 0 /\ day = 0 /\ msd = None
    /\ IdleDarian
    /\ result = None

\* msd_now(advanced) and mtc_now(advanced), which starts with msd_now
InitNow ==
    /\ op \in {"msd_now", "mtc_now"}
    /\ pc = "msd_now"
    /\ clock \in ClockInstants \cup {None}
    /\ advanced \in BOOLEAN
    /\ datetime = <<>> /\ tdb = 0 /\ day = 0 /\ msd = None
    /\ IdleDarian
    /\ result = None

\* lines 348-364 of mtc_now, entered with the MSD that msd_now returned
InitMtcOfMsd ==
    /\ op = "mtc_of_msd"
    /\ pc = "mtc"
    /\ msd \in MtcMsdInputs
    /\ IdleTime /\ IdleDarian
    /\ result = None

\* a call of the private helper validate_date(year, month, day) with
\* fields in their ranges, as utc_to_msd calls it: years within MaxYearSpan
\* of MIN_YEAR, every month 1..12 and every day 1..31
InitValidateDate ==
    /\ op = "validate_date"
    /\ pc = "validate_date"
    /\ year \in (MIN_YEAR - MaxYearSpan)..(MIN_YEAR + MaxYearSpan)
    /\ month \in 1..12
    /\ day \in 1..31
    /\ datetime = <<>> /\ advanced = FALSE /\ clock = None /\ tdb = 0
    /\ msd = None
    /\ sol_fraction = 0 /\ sols_remaining = 0
    /\ year_iters = 0 /\ month_iters = 0
    /\ result = None

DarianUnchanged ==
    UNCHANGED <<sol_fraction, sols_remaining, year, month, year_iters, month_iters>>

\* msd_now, lines 49-56: the clock, or UtcTimeUnavailable; the ISO string;
\* then utc_to_msd
MsdNow ==
    /\ pc = "msd_now"
    /\ IF clock = None
       THEN /\ result' = Err("UtcTimeUnavailable")
            /\ pc' = "done"
            /\ UNCHANGED datetime
       ELSE /\ datetime' = to_isoformat(clock)
            /\ pc' = "utc_to_msd"
            /\ UNCHANGED result
    /\ UNCHANGED <<op, advanced, clock, tdb, day, msd>>
    /\ DarianUnchanged

\* utc_to_msd, the whole function.  msd_now and utc_to_msd return its result;
\* mtc_now returns its error (the ?) or goes on with the MSD.
UtcToMsd ==
    /\ pc = "utc_to_msd"
    /\ \E t \in (IF advanced THEN TdbTerms ELSE {0}) :
          LET r == utc_to_msd(datetime, advanced, t)
          IN  /\ tdb' = t
              /\ IF op = "mtc_now" /\ r.tag = "Ok"
                 THEN /\ msd' = r.value
                      /\ pc' = "mtc"
                      /\ UNCHANGED result
                 ELSE /\ result' = r
                      /\ pc' = "done"
                      /\ UNCHANGED msd
    /\ UNCHANGED <<op, datetime, advanced, clock, day>>
    /\ DarianUnchanged

\* mtc_now, lines 348-364
Mtc ==
    /\ pc = "mtc"
    /\ result' = Ok(mtc_of_msd(msd))
    /\ pc' = "done"
    /\ UNCHANGED <<op, datetime, advanced, clock, tdb, day, msd>>
    /\ DarianUnchanged

\* validate_date, lines 223-237
ValidateDate ==
    /\ pc = "validate_date"
    /\ result' = validate_date(year, month, day)
    /\ pc' = "done"
    /\ UNCHANGED <<op, datetime, advanced, clock, tdb, day, msd>>
    /\ DarianUnchanged

InitTime == InitUtcToMsd \/ InitNow \/ InitMtcOfMsd \/ InitValidateDate

NextTime == MsdNow \/ UtcToMsd \/ Mtc \/ ValidateDate

SpecTime == InitTime /\ [][NextTime]_vars

----------------------------------------------------------------------------
(* Properties of the time calls *)

UtcToMsdDone == op = "utc_to_msd" /\ pc = "done"

MtcDone == op \in {"mtc_now", "mtc_of_msd"} /\ pc = "done" /\ result.tag = "Ok"

\* "1873-12-28T23:59:59.999" and "1873-12-29T00:00:00.000"
LastInstantBeforeSolZero ==
    IsoString(Pad(MIN_YEAR, 4), MIN_MONTH, MIN_DAY - 1, 23, 59, 59, Fraction(999, 3))

FirstInstantOfSolZeroDate ==
    IsoString(Pad(MIN_YEAR, 4), MIN_MONTH, MIN_DAY, 0, 0, 0, Fraction(0, 3))

\* C3: in basic mode utc_to_msd("1873-12-28T23:59:59.999") fails with
\* DateBelowSolZeroError and utc_to_msd("1873-12-29T00:00:00.000") returns Ok
\* with an MSD within 0.01 of 0.
C3_SolZeroBoundary ==
    UtcToMsdDone /\ ~advanced =>
        /\ datetime = LastInstantBeforeSolZero => result = Err("DateBelowSolZeroError")
        /\ datetime = FirstInstantOfSolZeroDate =>
              /\ result.tag = "Ok"
              /\ FixWithin(result.value, Msd(0, 0), FRAC \div 100)

\* C4: utc_to_msd never ends with TimeCalculationError, in either mode, and
\* an Ok result is an MSD that is not negative.
C4_TimeCalculationErrorUnreachable ==
    UtcToMsdDone =>
        /\ result /= Err("TimeCalculationError")
        /\ result.tag = "Ok" => result.value.sols >= 0 /\ result.value.frac >= 0

\* C5: every Martian clock derived from an MSD >= 0 has hours in 0..23,
\* minutes and seconds in 0..59 and milliseconds in 0..999.
C5_MtcFieldsInRange ==
    MtcDone =>
        /\ result.value.hours \in 0..23
        /\ result.value.minutes \in 0..59
        /\ result.value.seconds \in 0..59
        /\ result.value.milliseconds \in 0..999

\* one of month, day, hour, minute, second of the captures is outside its
\* range (a value too large for a u8 is outside it as well)
FieldOutOfRange(g) ==
    \/ parse(g[2], U8_MAX) \notin 1..12
    \/ parse(g[3], U8_MAX) \notin 1..31
    \/ parse(g[4], U8_MAX) \notin 0..23
    \/ parse(g[5], U8_MAX) \notin 0..59
    \/ parse(g[6], U8_MAX) \notin 0..59

MatchOutOfRange(regex_result) == regex_result.ok /\ FieldOutOfRange(regex_result.group)

\* C6: when the string matches the pattern and one of month, day, hour,
\* minute, second is outside its range, utc_to_msd fails with
\* InvalidArgumentError, whatever the other fields are.
C6_OutOfRangeIsInvalidArgument ==
    UtcToMsdDone /\ MatchOutOfRange(captures(datetime)) =>
        result = Err("InvalidArgumentError")

\* position i of s holds the character c
At(s, i, c) == i <= Len(s) /\ s[i] = c

\* positions i..i+n-1 of s hold digits
Digs(s, i, n) == i + n - 1 <= Len(s) /\ \A j \in i..(i + n - 1) : IsDigit(s[j])

\* s matches ^(\d{4,})-(\d{1,2})-(\d{1,2})T(\d{1,2}):(\d{1,2}):(\d{1,2})
\* (?:\.(\d{1,}))?.*?$ : there are field widths for which it starts with the
\* six fields and their separators, and no line feed follows
MatchesPattern(s) ==
    \E a \in 4..Len(s) : Digs(s, 1, a) /\ At(s, a + 1, "-") /\
    \E b \in 1..2 : Digs(s, a + 2, b) /\ At(s, a + b + 2, "-") /\
    \E c \in 1..2 : Digs(s, a + b + 3, c) /\ At(s, a + b + c + 3, "T") /\
    \E d \in 1..2 : Digs(s, a + b + c + 4, d) /\ At(s, a + b + c + d + 4, ":") /\
    \E e \in 1..2 : Digs(s, a + b + c + d + 5, e) /\ At(s, a + b + c + d + e + 5, ":") /\
    \E f \in 1..2 : Digs(s, a + b + c + d + e + 6, f) /\
    \A k \in (a + b + c + d + e + f + 6)..Len(s) : s[k] /= "\n"

\* "21-08-06T05:17:57.000"
TwoDigitYear == IsoString(Pad(21, 2), 8, 6, 5, 17, 57, Fraction(0, 3))

\* C7: utc_to_msd fails with ISO8601FormatError for every string that does
\* not match the pattern, "21-08-06T05:17:57.000" among them.
C7_NoMatchIsFormatError ==
    UtcToMsdDone =>
        /\ ~MatchesPattern(datetime) => result = Err("ISO8601FormatError")
        /\ datetime = TwoDigitYear => result = Err("ISO8601FormatError")

C7_Witness ==
    /\ UtcToMsdDone
    /\ datetime = TwoDigitYear
    /\ ~MatchesPattern(datetime)
    /\ result = Err("ISO8601FormatError")

\* 49269.25
CURIOSITY_LANDING_SOL == Msd(49269, FRAC \div 4)

\* C9: utc_to_msd("2012-08-06T05:17:57.000") is within 0.01 of 49269.25 in
\* basic and in advanced mode, and msd_now returns what utc_to_msd returns
\* for that string when the clock reads that instant.
C9_CuriosityLandingMsd ==
    /\ UtcToMsdDone /\ datetime = CuriosityLanding =>
          /\ result.tag = "Ok"
          /\ FixWithin(result.value, CURIOSITY_LANDING_SOL, FRAC \div 100)
    /\ op = "msd_now" /\ pc = "done" /\ clock = get_current_utc_time =>
          /\ result.tag = "Ok"
          /\ FixWithin(result.value, CURIOSITY_LANDING_SOL, FRAC \div 100)
          /\ result = utc_to_msd(CuriosityLanding, advanced, tdb)

C9_Witness ==
    /\ op = "msd_now" /\ pc = "done" /\ advanced
    /\ clock = get_current_utc_time
    /\ tdb = TdbBound
    /\ result.tag = "Ok"
    /\ FixWithin(result.value, CURIOSITY_LANDING_SOL, FRAC \div 100)

\* C10, as stated: the Martian clock derived from MSD 49269.25 is 5:53:28.
C10_MtcOfQuarterSol ==
    op = "mtc_of_msd" /\ pc = "done" /\ msd = CURIOSITY_LANDING_SOL =>
        /\ result.value.hours = 5
        /\ result.value.minutes = 53
        /\ result.value.seconds = 28

\* C10: the Martian clock that mtc_now derives in basic mode when the clock
\* reads the Curiosity landing, 2012-08-06T05:17:57 UTC, is 5:53:28; the MSD
\* it is derived from is within 0.01 of 49269.25 and is not 49269.25.
C10_MtcOfCuriosityLanding ==
    op = "mtc_now" /\ pc = "done" /\ ~advanced /\ clock = get_current_utc_time =>
        /\ result.tag = "Ok"
        /\ result.value.hours = 5
        /\ result.value.minutes = 53
        /\ result.value.seconds = 28
        /\ FixWithin(msd, CURIOSITY_LANDING_SOL, FRAC \div 100)
        /\ msd /= CURIOSITY_LANDING_SOL

C10_Witness ==
    /\ op = "mtc_now" /\ pc = "done" /\ ~advanced
    /\ clock = get_current_utc_time
    /\ result.tag = "Ok"
    /\ result.value.seconds = 28

\* (y, mo, d) is lexicographically smaller than (1873, 12, 29)
BeforeSolZeroDate(y, mo, d) ==
    \/ y < 1873
    \/ y = 1873 /\ mo < 12
    \/ y = 1873 /\ mo = 12 /\ d < 29

\* year, month and day of the captures are in their ranges
DateInRange(g) ==
    /\ parse(g[1], I32_MAX) \in 0..I32_MAX
    /\ parse(g[2], U8_MAX) \in 1..12
    /\ parse(g[3], U8_MAX) \in 1..31

\* the captures name a date before (1873, 12, 29)
DateBeforeSolZero(g) ==
    BeforeSolZeroDate(parse(g[1], I32_MAX), parse(g[2], U8_MAX), parse(g[3], U8_MAX))

\* utc_to_msd of a matching string with year, month and day in range fails
\* with DateBelowSolZeroError exactly when the date is before (1873, 12, 29)
SolZeroCheckOfMatch(regex_result, r) ==
    regex_result.ok /\ DateInRange(regex_result.group) =>
        (r = Err("DateBelowSolZeroError") <=> DateBeforeSolZero(regex_result.group))

\* C11: validate_date(year, month, day) with fields in range fails with
\* DateBelowSolZeroError if and only if (year, month, day) is
\* lexicographically smaller than (1873, 12, 29) and returns Ok otherwise;
\* utc_to_msd fails with that error for exactly those dates, whatever the
\* hour, minute, second and fraction of the string are.
C11_SolZeroCheckIsLexicographic ==
    /\ op = "validate_date" /\ pc = "done" =>
          /\ result = Err("DateBelowSolZeroError") <=> BeforeSolZeroDate(year, month, day)
          /\ result /= Err("DateBelowSolZeroError") => result.tag = "Ok"
    /\ UtcToMsdDone => SolZeroCheckOfMatch(captures(datetime), result)

\* the year and the month of the minimum, and the day before it
C11_Witness ==
    /\ op = "validate_date" /\ pc = "done"
    /\ year = 1873 /\ month = 12 /\ day = 28
    /\ result = Err("DateBelowSolZeroError")

\* C12: get_darian_month_length(year, month) fails with MonthValueOutOfRange
\* for a month outside 1..24; for a month in 1..24 it returns 28, except 27
\* for months 6, 12, 18 and 24, except 28 for month 24 of a leap year; for
\* every month but 24 the length is the same in every year (every year's is
\* that of year 0 and of year 2).
C12_MonthLengthTable ==
    op = "get_darian_month_length" /\ pc = "done" =>
        /\ month \notin 1..24 => result = Err("MonthValueOutOfRange")
        /\ month \in 1..24 \ {6, 12, 18, 24} => result = Ok(28)
        /\ month \in {6, 12, 18} => result = Ok(27)
        /\ month = 24 => result = Ok(IF is_darian_leap_year(year) THEN 28 ELSE 27)
        /\ month \in 1..23 =>
              \* the same as in year 0, a leap year, and in year 2, which is not
              \A y \in {0, 2} : result = get_darian_month_length(y, month)

\* month 24 of a leap year and of a year that is not
C12_Witness ==
    /\ op = "get_darian_month_length" /\ pc = "done"
    /\ month = 24
    /\ year = 2000
    /\ result = Ok(28)
    /\ get_darian_month_length(1900, 24) = Ok(27)

\* the loops of msd_to_darian, step by step: the year loop has subtracted one
\* year length per year counted; it leaves less than the length of the year
\* it stops in; the month loop asks for the length of months 1, 2, ... in
\* turn and never of a month after 24; the call does not return an error
LoopsInBounds ==
    op \in {"msd_to_darian", "darian_now"} =>
        /\ year_iters = year
        /\ pc = "month_loop" =>
              /\ month \in 1..24
              /\ month_iters = month - 1
              /\ month = 1 => sols_remaining < year_length(year)
        /\ pc = "done" =>
              /\ result /= Err("MonthValueOutOfRange")
              /\ result.tag = "Ok"
              /\ month_iters = month
              /\ month_iters <= 24

\* C13: every msd_to_darian call (MSD >= 0) returns; the year loop makes
\* exactly one subtracting iteration per elapsed year and ends with fewer
\* sols left than the year has; the month loop makes at most 24 iterations,
\* never asks for month 25 and MonthValueOutOfRange is never returned.
C13_LoopsTerminate == []LoopsInBounds /\ <>(pc = "done")

\* a call that went through a whole non-leap year and all 24 months
C13_Witness ==
    /\ op = "msd_to_darian" /\ pc = "done"
    /\ ~is_darian_leap_year(year)
    /\ year_iters = 142
    /\ month_iters = 24
    /\ result.tag = "Ok"

\* the sols of the years a .. b - 1, summed by halves
RECURSIVE SolsOfYears(_, _)
SolsOfYears(a, b) ==
    IF b <= a THEN 0
    ELSE IF b = a + 1 THEN year_length(a)
    ELSE SolsOfYears(a, (a + b) \div 2) + SolsOfYears((a + b) \div 2, b)

\* the sols of the years before year y
SolsBeforeYear(y) == SolsOfYears(0, y)

\* the sols of the months of year y before month m
RECURSIVE SolsBeforeMonth(_, _)
SolsBeforeMonth(y, m) ==
    IF m = 1 THEN 0
    ELSE SolsBeforeMonth(y, m - 1) + get_darian_month_length(y, m - 1).value

\* floor(msd + 94130.9446045 - 1) and the fraction that floor drops
TotalSols(m) == m.sols + 94130 - 1 + (IF m.frac + 944604500 >= FRAC THEN 1 ELSE 0)

AdjustedFraction(m) == (m.frac + 944604500) % FRAC

\* date a is not after date b, lexicographically on (year, month, sol)
DateLe(a, b) ==
    \/ a.year < b.year
    \/ a.year = b.year /\ a.month < b.month
    \/ a.year = b.year /\ a.month = b.month /\ FixLe(a.sol, b.sol)

\* the MSDs of the sol of m and of the sol before it that are not after m
NotAfter(m) ==
    {p \in {Msd(s, f) : s \in {m.sols - 1, m.sols} \cap Nat, f \in MsdFracs \cup {m.frac}} :
        FixLe(p, m)}

\* C14: msd_to_darian loses no sols: the sols of the years before the
\* returned year, of the months before the returned month and the whole sols
\* of the returned sol add up to floor(msd + 94130.9446045 - 1), and the
\* fraction of the returned sol is the fraction of the adjusted MSD; the 24
\* months of the returned year add up to the year's length, 668 or 669 in a
\* leap year; and the date of an MSD that is not after this one (in the same
\* sol or the sol before) is not after the returned date.
C14_NoSolsLost ==
    DarianDone =>
        /\ result.tag = "Ok"
        /\ result = msd_to_darian(msd)
        /\ SolsBeforeYear(result.value.year)
              + SolsBeforeMonth(result.value.year, result.value.month)
              + result.value.sol.sols = TotalSols(msd)
        /\ result.value.sol.frac = AdjustedFraction(msd)
        /\ SolsBeforeMonth(result.value.year, 24)
              + get_darian_month_length(result.value.year, 24).value
              = year_length(result.value.year)
        /\ year_length(result.value.year)
              = (IF is_darian_leap_year(result.value.year) THEN 669 ELSE 668)
        /\ \A p \in NotAfter(msd) :
              /\ msd_to_darian(p).tag = "Ok"
              /\ DateLe(msd_to_darian(p).value, result.value)

\* a call whose MSD carried into the next sol once the offset was added, and
\* which ended past the first month of a year after year 140
C14_Witness ==
    /\ op = "msd_to_darian" /\ pc = "done"
    /\ msd.frac + 944604500 >= FRAC
    /\ result.tag = "Ok"
    /\ result.value.year = 141
    /\ result.value.month = 7
    /\ result.value.sol.sols = 0

====
